---- MODULE Spec2Model ----
(***************************************************************************)
(* The OpenCL backend of ppcg (src/opencl.c): generate_opencl opens three  *)
(* output files, lets generate_gpu call print_opencl back, and closes the  *)
(* files.  print_opencl writes the host code: device array declarations,   *)
(* the OpenCL set-up, the device allocations, the host AST (one launch     *)
(* block per kernel node, each of which also prints the kernel function    *)
(* into the kernel file), the copies back to the host and the releases.    *)
(*                                                                         *)
(* The host file and the kernel file are modelled as the sequences of      *)
(* statements written to them, in the order of writing.  Names are         *)
(* modelled by identity: array i of the program is <<"array", i>>,         *)
(* parameter j of a kernel is <<"param", j>>, host iterator j is           *)
(* <<"iter", j>>.  Sizes are symbolic: block_dim[i] is the entry           *)
(* [form |-> "block", i |-> i], the i-th grid bound is "grid".             *)
(***************************************************************************)
EXTENDS Integers, Sequences, FiniteSets, TLC

\* Bounds of the explored inputs.
MaxArrays == 2
MaxKernels == 2
MaxParam == 1
MaxIter == 1
MaxDim == 2

VARIABLES
    pc,                 \* position in generate_opencl / print_opencl
    fs,                 \* the files fopen() can open for writing (environment)
    info,               \* struct opencl_info: the three FILE handles
    reported,           \* files for which open_or_croak printed an error
    r,                  \* the return value of generate_opencl so far
    prog,               \* struct gpu_prog: the arrays, in program order
    tree,               \* the kernel nodes of the host AST, in print order
    ast_iterator_type,  \* isl_options_get_ast_iterator_type(ctx)
    host,               \* statements written to host_c
    kernel_c,           \* what was written to kernel_c
    kernel_h,           \* number of prologue lines written to kernel_h
    visited             \* number of kernel nodes printed so far

vars == <<pc, fs, info, reported, r, prog, tree, ast_iterator_type,
          host, kernel_c, kernel_h, visited>>

Files == {"host_c", "kernel_c", "kernel_h"}

min(a, b) == IF a < b THEN a ELSE b
max(a, b) == IF a > b THEN a ELSE b

SeqsUpTo(S, n) == UNION {[1..k -> S] : k \in 0..n}

(***************************************************************************)
(* Inputs.                                                                 *)
(***************************************************************************)

\* What the backend reads of a struct gpu_array_info and of the program's
\* copy_in / copy_out footprints restricted to the array's space.  A
\* read-only scalar is a scalar.
ArrayInfo ==
    {a \in [read_only_scalar : BOOLEAN, scalar : BOOLEAN,
            copy_in : BOOLEAN, copy_out : BOOLEAN,
            guard_trivial : BOOLEAN] : a.read_only_scalar => a.scalar}

\* Arrays of the inputs that vary the kernels rather than the arrays: a
\* read-only scalar, an array that is only written and whose size may be
\* zero, and an array that is read and written and has constant size.
PlainArrayInfo ==
    {[read_only_scalar |-> TRUE, scalar |-> TRUE, copy_in |-> TRUE,
      copy_out |-> FALSE, guard_trivial |-> TRUE],
     [read_only_scalar |-> FALSE, scalar |-> FALSE, copy_in |-> FALSE,
      copy_out |-> TRUE, guard_trivial |-> FALSE],
     [read_only_scalar |-> FALSE, scalar |-> FALSE, copy_in |-> TRUE,
      copy_out |-> TRUE, guard_trivial |-> TRUE]}

\* What the backend reads of a struct ppcg_kernel: the arrays with a
\* non-empty set in kernel->arrays, the number of parameters of the space of
\* kernel->arrays, the number of set dimensions of kernel->space, n_block
\* and the dimension of grid_size.  The id is filled in from the position of
\* the node in the tree (ids are unique).
KernelShapes(n_array, params, iters, blocks, grids) ==
    [arrays : SUBSET (1..n_array), nparam : params, niter : iters,
     n_block : blocks, grid_dim : grids]

WithIds(shapes) ==
    [k \in 1..Len(shapes) |->
        [id |-> k - 1, arrays |-> shapes[k].arrays,
         nparam |-> shapes[k].nparam, niter |-> shapes[k].niter,
         n_block |-> shapes[k].n_block, grid_dim |-> shapes[k].grid_dim]]

(***************************************************************************)
(* The printers of src/opencl.c, as the statements they write.             *)
(***************************************************************************)

RECURSIVE Flatten(_)
Flatten(ss) == IF ss = <<>> THEN <<>> ELSE Head(ss) \o Flatten(Tail(ss))

\* The positions of the statements of "out" with the given op.
Positions(out, op) == {n \in 1..Len(out) : out[n].op = op}

opencl_print_host_macros == <<[op |-> "macros"]>>

\* "cl_mem dev_<name>;" for every array, read-only scalar or not.
opencl_declare_device_arrays_all(arrays) ==
    Flatten([i \in 1..Len(arrays) |-> <<[op |-> "declare", array |-> i]>>])

\* "cl_mem dev_<name>;" for every array that is not a read-only scalar.
opencl_declare_device_arrays(arrays) ==
    Flatten([i \in 1..Len(arrays) |->
        IF arrays[i].read_only_scalar
        THEN <<>>
        ELSE <<[op |-> "declare", array |-> i]>>])

\* isl_set_plain_is_universe of the array's positive size guard.
is_array_positive_size_guard_trivial(arrays, i) == arrays[i].guard_trivial

\* The allocation without the max(sizeof(type), ...) around the size.
allocate_device_array_no_lower_bound(arrays, i, copy) ==
    <<[op |-> "alloc", array |-> i,
       copy_host_ptr |-> copy,
       lower_bound |-> FALSE,
       src |-> IF ~copy THEN "NULL"
               ELSE IF arrays[i].scalar THEN "&name" ELSE "name"],
      [op |-> "check_err"]>>

\* dev_<name> = clCreateBuffer(context, CL_MEM_READ_WRITE [| COPY_HOST_PTR],
\*      [max(sizeof(type), ] size [)], NULL | &name | name, &err);
\* openclCheckReturn(err);
allocate_device_array(arrays, i, copy) ==
    <<[op |-> "alloc", array |-> i,
       copy_host_ptr |-> copy,
       lower_bound |-> ~is_array_positive_size_guard_trivial(arrays, i),
       src |-> IF ~copy THEN "NULL"
               ELSE IF arrays[i].scalar THEN "&name" ELSE "name"],
      [op |-> "check_err"]>>

\* The allocation loop with the copy requested for every array.
opencl_allocate_device_arrays_copy_all(arrays) ==
    Flatten([i \in 1..Len(arrays) |->
        IF arrays[i].read_only_scalar
        THEN <<>>
        ELSE allocate_device_array(arrays, i, TRUE)])

opencl_allocate_device_arrays(arrays) ==
    Flatten([i \in 1..Len(arrays) |->
        IF arrays[i].read_only_scalar
        THEN <<>>
        ELSE allocate_device_array(arrays, i, arrays[i].copy_in)])

\* openclCheckReturn(clSetKernelArg(kernel<id>, <index>, sizeof(<name>), &<name>))
\* for a read-only scalar, and
\* ... sizeof(cl_mem), (void *) &dev_<name>)) otherwise.
opencl_set_kernel_argument(kernel_id, arg_name, arg_index, read_only_scalar) ==
    [op |-> "set_arg", kernel |-> kernel_id, index |-> arg_index,
     arg |-> arg_name,
     size_of |-> IF read_only_scalar THEN "name" ELSE "cl_mem",
     addr |-> IF read_only_scalar THEN "&name" ELSE "&dev_name"]

\* A symbolic size: block_dim[i], the i-th grid bound, their product, or
\* the literal i.
Size(form, i) == [form |-> form, i |-> i]

opencl_print_block_sizes(kernel) ==
    IF kernel.n_block > 0
    THEN [j \in 1..kernel.n_block |-> Size("block", j - 1)]
    ELSE <<Size("lit", 1)>>

\* The loop over the arrays with arg_index advanced for every array of the
\* program, accessed or not.
RECURSIVE set_array_arguments_by_position(_, _, _, _)
set_array_arguments_by_position(arrays, kernel, i, arg_index) ==
    IF i > Len(arrays) THEN <<>>
    ELSE IF i \notin kernel.arrays
         THEN set_array_arguments_by_position(arrays, kernel, i + 1,
                                              arg_index + 1)
         ELSE <<opencl_set_kernel_argument(kernel.id, <<"array", i>>,
                    arg_index, arrays[i].read_only_scalar)>>
              \o set_array_arguments_by_position(arrays, kernel, i + 1,
                                                 arg_index + 1)

\* The loop over the arrays with the read-only scalars left out.
RECURSIVE set_array_arguments_buffers_only(_, _, _, _)
set_array_arguments_buffers_only(arrays, kernel, i, arg_index) ==
    IF i > Len(arrays) THEN <<>>
    ELSE IF i \notin kernel.arrays \/ arrays[i].read_only_scalar
         THEN set_array_arguments_buffers_only(arrays, kernel, i + 1,
                                               arg_index)
         ELSE <<opencl_set_kernel_argument(kernel.id, <<"array", i>>,
                    arg_index, FALSE)>>
              \o set_array_arguments_buffers_only(arrays, kernel, i + 1,
                                                  arg_index + 1)

\* The loop over the arrays of opencl_set_kernel_arguments, from array i on,
\* with arg_index the running index.
RECURSIVE set_array_arguments(_, _, _, _)
set_array_arguments(arrays, kernel, i, arg_index) ==
    IF i > Len(arrays) THEN <<>>
    ELSE IF i \notin kernel.arrays
         THEN set_array_arguments(arrays, kernel, i + 1, arg_index)
         ELSE <<opencl_set_kernel_argument(kernel.id, <<"array", i>>,
                    arg_index, arrays[i].read_only_scalar)>>
              \o set_array_arguments(arrays, kernel, i + 1, arg_index + 1)

\* The loops over the parameters and the host iterators with every name
\* bound as a device buffer.
set_scalar_arguments_as_buffers(kernel, class, n, arg_index) ==
    [j \in 1..n |->
        opencl_set_kernel_argument(kernel.id, <<class, j - 1>>,
            arg_index + j - 1, FALSE)]

\* The loops over the parameters and over the host iterators: every name is
\* bound as a read-only scalar, at the next index.
set_scalar_arguments(kernel, class, n, arg_index) ==
    [j \in 1..n |->
        opencl_set_kernel_argument(kernel.id, <<class, j - 1>>,
            arg_index + j - 1, TRUE)]

\* The bindings with the host iterators before the parameters.
opencl_set_kernel_arguments_iterators_first(arrays, kernel) ==
    LET a == set_array_arguments(arrays, kernel, 1, 0)
        h == set_scalar_arguments(kernel, "iter", kernel.niter, Len(a))
        p == set_scalar_arguments(kernel, "param", kernel.nparam,
                                  Len(a) + Len(h))
    IN  a \o h \o p

opencl_set_kernel_arguments(arrays, kernel) ==
    LET a == set_array_arguments(arrays, kernel, 1, 0)
        p == set_scalar_arguments(kernel, "param", kernel.nparam, Len(a))
        h == set_scalar_arguments(kernel, "iter", kernel.niter,
                                  Len(a) + Len(p))
    IN  a \o p \o h

\* The arguments with the host iterators declared "int" like the
\* parameters.
print_kernel_arguments_int_iterators(arrays, kernel, types, iterator_type) ==
    LET a == Flatten([i \in 1..Len(arrays) |->
                IF i \notin kernel.arrays THEN <<>>
                ELSE <<[arg |-> <<"array", i>>,
                        how |-> IF types THEN "__global" ELSE "call"]>>])
        p == [j \in 1..kernel.nparam |->
                [arg |-> <<"param", j - 1>>,
                 how |-> IF types THEN "int" ELSE "call"]]
        h == [j \in 1..kernel.niter |->
                [arg |-> <<"iter", j - 1>>,
                 how |-> IF types THEN "int" ELSE "call"]]
    IN  a \o p \o h

\* The arguments of a kernel declaration (types = TRUE) or call: the
\* accessed arrays, the parameters, the host iterators.  "how" is what is
\* printed with the name: arrays go through
\* gpu_array_info_print_declaration_argument with "__global" or through
\* gpu_array_info_print_call_argument, parameters are declared "int",
\* iterators with the AST iterator type.
opencl_print_kernel_arguments(arrays, kernel, types, iterator_type) ==
    LET a == Flatten([i \in 1..Len(arrays) |->
                IF i \notin kernel.arrays THEN <<>>
                ELSE <<[arg |-> <<"array", i>>,
                        how |-> IF types THEN "__global" ELSE "call"]>>])
        p == [j \in 1..kernel.nparam |->
                [arg |-> <<"param", j - 1>>,
                 how |-> IF types THEN "int" ELSE "call"]]
        h == [j \in 1..kernel.niter |->
                [arg |-> <<"iter", j - 1>>,
                 how |-> IF types THEN iterator_type ELSE "call"]]
    IN  a \o p \o h

\* __kernel void kernel<id>(<arguments with types>)
opencl_print_kernel_header(arrays, kernel, iterator_type) ==
    [op |-> "kernel", id |-> kernel.id,
     args |-> opencl_print_kernel_arguments(arrays, kernel, TRUE,
                                            iterator_type)]

\* One kernel function in the kernel file: the header, then the iterators,
\* the variables and the body.
opencl_print_kernel(arrays, kernel, iterator_type) ==
    <<opencl_print_kernel_header(arrays, kernel, iterator_type)>>

\* The entry for dimension i as the comment above the function words it:
\* the block size alone only if i > grid_dim.
work_items_for_dim_beyond_grid(kernel, i) ==
    IF i < min(kernel.grid_dim, kernel.n_block)
    THEN Size("grid*block", i)
    ELSE IF i > kernel.grid_dim
         THEN Size("block", i)
         ELSE Size("grid", i)

opencl_print_total_number_of_work_items_for_dim(kernel, i) ==
    IF i < min(kernel.grid_dim, kernel.n_block)
    THEN Size("grid*block", i)
    ELSE IF i >= kernel.grid_dim
         THEN Size("block", i)
         ELSE Size("grid", i)

\* The list with the literal 1 only when both dimensions are zero.
work_items_as_list_if_both_zero(kernel) ==
    IF kernel.grid_dim <= 0 /\ kernel.n_block <= 0
    THEN <<Size("lit", 1)>>
    ELSE [j \in 1..max(kernel.grid_dim, kernel.n_block) |->
            opencl_print_total_number_of_work_items_for_dim(kernel, j - 1)]

\* The list without the test for a zero dimension.
work_items_as_list_unguarded(kernel) ==
    [j \in 1..max(kernel.grid_dim, kernel.n_block) |->
        opencl_print_total_number_of_work_items_for_dim(kernel, j - 1)]

opencl_print_total_number_of_work_items_as_list(kernel) ==
    IF kernel.grid_dim <= 0 \/ kernel.n_block <= 0
    THEN <<Size("lit", 1)>>
    ELSE [j \in 1..max(kernel.grid_dim, kernel.n_block) |->
            opencl_print_total_number_of_work_items_for_dim(kernel, j - 1)]

\* The length as n_block itself, also when it is zero.
work_dim_n_block(kernel) == kernel.n_block

\* The length printed between the brackets of global_work_size[] and
\* block_size[], and as the work dimension of clEnqueueNDRangeKernel.
work_dim(kernel) == IF kernel.n_block > 0 THEN kernel.n_block ELSE 1

\* The end of the block without the clFinish.
launch_kernel_no_wait(kernel) ==
    <<[op |-> "enqueue", kernel |-> kernel.id, dim |-> work_dim(kernel)],
      [op |-> "release_kernel", kernel |-> kernel.id],
      [op |-> "block_close", kernel |-> kernel.id]>>

\* The end of the block of opencl_print_host_user: clEnqueueNDRangeKernel,
\* clReleaseKernel, clFinish(queue) and the closing brace.
launch_kernel(kernel) ==
    <<[op |-> "enqueue", kernel |-> kernel.id, dim |-> work_dim(kernel)],
      [op |-> "release_kernel", kernel |-> kernel.id],
      [op |-> "finish", kernel |-> kernel.id],
      [op |-> "block_close", kernel |-> kernel.id]>>

\* The block printed for a kernel node of the host AST.
opencl_print_host_user(arrays, kernel) ==
    <<[op |-> "block_open", kernel |-> kernel.id],
      [op |-> "global_work_size", kernel |-> kernel.id,
       len |-> work_dim(kernel),
       init |-> opencl_print_total_number_of_work_items_as_list(kernel)],
      [op |-> "block_size", kernel |-> kernel.id,
       len |-> work_dim(kernel),
       init |-> opencl_print_block_sizes(kernel)],
      [op |-> "create_kernel", kernel |-> kernel.id],
      [op |-> "check_err"]>>
    \o opencl_set_kernel_arguments(arrays, kernel)
    \o launch_kernel(kernel)

\* openclCheckReturn(clEnqueueReadBuffer(queue, dev_<name>, CL_TRUE, 0,
\*      size, &name | name, 0, NULL, NULL));
copy_array_from_device(arrays, i) ==
    [op |-> "read_buffer", array |-> i,
     dst |-> IF arrays[i].scalar THEN "&name" ELSE "name"]

\* ppcg_print_guarded(p, guard, context, fn, user): fn's output, inside
\* "if (guard)" unless the guard is trivially true.
ppcg_print_guarded(arrays, i, stmt) ==
    IF arrays[i].guard_trivial
    THEN <<stmt>>
    ELSE <<[op |-> "if_guard", array |-> i], stmt,
           [op |-> "end_guard", array |-> i]>>

opencl_copy_arrays_from_device(arrays) ==
    Flatten([i \in 1..Len(arrays) |->
        IF ~arrays[i].copy_out
        THEN <<>>
        ELSE ppcg_print_guarded(arrays, i,
                                copy_array_from_device(arrays, i))])

opencl_setup == <<[op |-> "setup"]>>

opencl_release_cl_objects == <<[op |-> "release_cl"]>>

\* openclCheckReturn(clReleaseMemObject(dev_<name>));
release_device_array(i) == [op |-> "release_mem", array |-> i]

\* The release loop without the test for read-only scalars.
opencl_release_device_arrays_all(arrays) ==
    Flatten([i \in 1..Len(arrays) |-> <<release_device_array(i)>>])

opencl_release_device_arrays(arrays) ==
    Flatten([i \in 1..Len(arrays) |->
        IF arrays[i].read_only_scalar
        THEN <<>>
        ELSE <<release_device_array(i)>>])

(***************************************************************************)
(* The initial states: generate_opencl is entered with its struct          *)
(* opencl_info zeroed but for the options and the names, on one of the     *)
(* inputs below.  The inputs come in four groups, each of which varies one *)
(* part of the input and keeps the others small.                           *)
(***************************************************************************)

\* Every combination of array flags; one kernel node, which accesses every
\* array.
PolicyInputs ==
    {x \in [prog : SeqsUpTo(ArrayInfo, MaxArrays), fs : {Files},
            type : {"int"}, shapes : [1..1 -> KernelShapes(MaxArrays,
                            {0}, {0}, {1}, {1})]] :
        \A k \in 1..Len(x.shapes) : x.shapes[k].arrays = 1..Len(x.prog)}

\* One kernel node with every combination of accessed arrays, parameters
\* and host iterators, and the two iterator types.
ArgumentInputs ==
    {x \in [prog : SeqsUpTo(PlainArrayInfo, MaxArrays), fs : {Files},
            type : {"int", "long"},
            shapes : [1..1 -> KernelShapes(MaxArrays, 0..MaxParam,
                                           0..MaxIter, {1}, {1})]] :
        \A k \in 1..Len(x.shapes) : x.shapes[k].arrays \subseteq 1..Len(x.prog)}

\* Up to MaxKernels kernel nodes with every combination of block and grid
\* dimensions, each accessing the one array of the program.
LaunchInputs ==
    {x \in [prog : [1..1 -> {a \in PlainArrayInfo : ~a.copy_in}],
            fs : {Files}, type : {"int"},
            shapes : SeqsUpTo(KernelShapes(1, {0}, {0}, 0..MaxDim,
                                           0..MaxDim), MaxKernels)] :
        \A k \in 1..Len(x.shapes) : x.shapes[k].arrays = 1..Len(x.prog)}

\* Every combination of files that can and cannot be opened.
FileInputs ==
    {x \in [prog : SeqsUpTo(PlainArrayInfo, 1), fs : SUBSET Files,
            type : {"int"}, shapes : SeqsUpTo(KernelShapes(1,
                            {0}, {0}, {1}, {1}), 1)] :
        \A k \in 1..Len(x.shapes) : x.shapes[k].arrays \subseteq 1..Len(x.prog)}

Inputs == PolicyInputs \cup ArgumentInputs \cup LaunchInputs \cup FileInputs

Init ==
    \E x \in Inputs :
        /\ pc = "start"
        /\ fs = x.fs
        /\ info = [f \in Files |-> "null"]
        /\ reported = {}
        /\ r = 0
        /\ prog = x.prog
        /\ tree = WithIds(x.shapes)
        /\ ast_iterator_type = x.type
        /\ host = <<>>
        /\ kernel_c = <<>>
        /\ kernel_h = 0
        /\ visited = 0

(***************************************************************************)
(* generate_opencl, step by step.                                          *)
(***************************************************************************)

Input == <<fs, prog, tree, ast_iterator_type>>

\* open_or_croak for each of the three files.
open_or_croak(f) == IF f \in fs THEN "open" ELSE "null"

\* The test of opencl_open_files on the handles it has just opened.
open_failed(handles) ==
    \/ handles["host_c"] = "null"
    \/ handles["kernel_c"] = "null"
    \/ handles["host_c"] = "null"

\* opencl_open_files: open the three files, return -1 if the test on the
\* handles fails, and otherwise write the includes.  Writing to kernel_h
\* when it could not be opened is fprintf on a null FILE pointer: the
\* process is either killed or the call gets through without writing.
opencl_open_files ==
    /\ pc = "start"
    /\ info' = [f \in Files |-> open_or_croak(f)]
    /\ reported' = {f \in Files : open_or_croak(f) = "null"}
    /\ \/ /\ open_failed(info')
          /\ r' = -1
          /\ pc' = "close"
          /\ UNCHANGED <<host, kernel_h>>
       \/ /\ ~open_failed(info')
          /\ info'["kernel_h"] = "open"
          /\ r' = 0
          /\ pc' = "generate"
          /\ host' = host \o <<[op |-> "includes"]>>
          /\ kernel_h' = kernel_h + 8
       \/ /\ ~open_failed(info')
          /\ info'["kernel_h"] = "null"
          /\ r' = 0
          /\ pc' = "generate"
          /\ host' = host \o <<[op |-> "includes"]>>
          /\ UNCHANGED kernel_h
       \/ /\ ~open_failed(info')
          /\ info'["kernel_h"] = "null"
          /\ r' = 0
          /\ pc' = "crashed"
          /\ host' = host \o <<[op |-> "includes"]>>
          /\ UNCHANGED kernel_h
    /\ UNCHANGED <<Input, kernel_c, visited>>

\* generate_gpu calls print_opencl, which first prints the types to the
\* kernel file and then starts the host block with the macros.
print_opencl_start ==
    /\ pc = "generate"
    /\ kernel_c' = kernel_c \o <<[op |-> "types"]>>
    /\ host' = host \o <<[op |-> "start_block"]>> \o opencl_print_host_macros
    /\ pc' = "declare"
    /\ UNCHANGED <<Input, info, reported, r, kernel_h, visited>>

DeclareDeviceArrays ==
    /\ pc = "declare"
    /\ host' = host \o opencl_declare_device_arrays(prog)
    /\ pc' = "setup"
    /\ UNCHANGED <<Input, info, reported, r, kernel_c, kernel_h, visited>>

Setup ==
    /\ pc = "setup"
    /\ host' = host \o opencl_setup
    /\ pc' = "allocate"
    /\ UNCHANGED <<Input, info, reported, r, kernel_c, kernel_h, visited>>

AllocateDeviceArrays ==
    /\ pc = "allocate"
    /\ host' = host \o opencl_allocate_device_arrays(prog)
    /\ pc' = "host_code"
    /\ UNCHANGED <<Input, info, reported, r, kernel_c, kernel_h, visited>>

\* The host code printed by print_opencl before the device arrays are
\* allocated as well as after, each launch block together with its kernel.
PrintHostUser_before_allocation ==
    /\ pc \in {"allocate", "host_code"}
    /\ visited < Len(tree)
    /\ host' = host \o opencl_print_host_user(prog, tree[visited + 1])
    /\ kernel_c' = kernel_c \o opencl_print_kernel(prog, tree[visited + 1],
                                                   ast_iterator_type)
    /\ visited' = visited + 1
    /\ UNCHANGED <<Input, pc, info, reported, r, kernel_h>>

\* The callback that prints the launch block and the kernel in one go and
\* then goes on to print the kernel.
PrintHostUser_with_kernel ==
    /\ pc = "host_code"
    /\ visited < Len(tree)
    /\ host' = host \o opencl_print_host_user(prog, tree[visited + 1])
    /\ kernel_c' = kernel_c \o opencl_print_kernel(prog, tree[visited + 1],
                                                   ast_iterator_type)
    /\ pc' = "print_kernel"
    /\ UNCHANGED <<Input, info, reported, r, kernel_h, visited>>

\* opencl_print_host_code prints the tree; at each kernel node the callback
\* opencl_print_host_user first prints the launch block to the host file.
PrintHostUser ==
    /\ pc = "host_code"
    /\ visited < Len(tree)
    /\ host' = host \o opencl_print_host_user(prog, tree[visited + 1])
    /\ pc' = "print_kernel"
    /\ UNCHANGED <<Input, info, reported, r, kernel_c, kernel_h, visited>>

\* The callback ends with the call of opencl_print_kernel, which prints the
\* kernel to the kernel file; the traversal then moves to the next node.
PrintKernel ==
    /\ pc = "print_kernel"
    /\ kernel_c' = kernel_c \o opencl_print_kernel(prog, tree[visited + 1],
                                                   ast_iterator_type)
    /\ visited' = visited + 1
    /\ pc' = "host_code"
    /\ UNCHANGED <<Input, info, reported, r, host, kernel_h>>

CopyArraysFromDevice ==
    /\ pc = "host_code"
    /\ visited = Len(tree)
    /\ host' = host \o opencl_copy_arrays_from_device(prog)
    /\ pc' = "release"
    /\ UNCHANGED <<Input, info, reported, r, kernel_c, kernel_h, visited>>

ReleaseDeviceArrays ==
    /\ pc = "release"
    /\ host' = host \o opencl_release_device_arrays(prog)
    /\ pc' = "release_cl"
    /\ UNCHANGED <<Input, info, reported, r, kernel_c, kernel_h, visited>>

\* The end of print_opencl; generate_gpu returns to generate_opencl.
ReleaseClObjects ==
    /\ pc = "release_cl"
    /\ host' = host \o opencl_release_cl_objects \o <<[op |-> "end_block"]>>
    /\ pc' = "close"
    /\ UNCHANGED <<Input, info, reported, r, kernel_c, kernel_h, visited>>

\* opencl_close_files closes every handle that is not null, and
\* generate_opencl returns r.
opencl_close_files ==
    /\ pc = "close"
    /\ info' = [f \in Files |-> IF info[f] = "open" THEN "closed" ELSE info[f]]
    /\ pc' = "done"
    /\ UNCHANGED <<Input, reported, r, host, kernel_c, kernel_h, visited>>

Next ==
    \/ opencl_open_files
    \/ print_opencl_start
    \/ DeclareDeviceArrays
    \/ Setup
    \/ AllocateDeviceArrays
    \/ PrintHostUser
    \/ PrintKernel
    \/ CopyArraysFromDevice
    \/ ReleaseDeviceArrays
    \/ ReleaseClObjects
    \/ opencl_close_files

Spec == Init /\ [][Next]_vars

(***************************************************************************)
(* Properties.                                                             *)
(***************************************************************************)

\* The binding statements printed for kernel id, in order.
Bindings(id) ==
    SelectSeq(host, LAMBDA s : s.op = "set_arg" /\ s.kernel = id)

\* The arguments of the declaration of kernel id in the kernel file.
Signature(id) ==
    SelectSeq(kernel_c, LAMBDA s : s.op = "kernel" /\ s.id = id)[1].args

\* The statements of the host file with the given op on array i.
OnArray(op, i) == SelectSeq(host, LAMBDA s : s.op = op /\ s.array = i)

\* C1: for every kernel printed, the arguments of the declaration
\* (types = 1), of the call (types = 0) and of the clSetKernelArg statements
\* are equally many and name the same array, parameter or iterator at every
\* position, and the clSetKernelArg statements carry the indices 0, 1, ...,
\* n - 1 in that order.
ArgumentListsAgree ==
    \A k \in 1..visited :
        LET bind == Bindings(tree[k].id)
            sig == Signature(tree[k].id)
            call == opencl_print_kernel_arguments(prog, tree[k], FALSE,
                                                  ast_iterator_type)
        IN  /\ Len(bind) = Len(sig)
            /\ Len(bind) = Len(call)
            /\ \A n \in 1..Len(bind) :
                /\ bind[n].arg = sig[n].arg
                /\ bind[n].arg = call[n].arg
                /\ bind[n].index = n - 1

\* A kernel that skips the first array of the program and has an array, a
\* parameter and a host iterator as arguments has been printed.
ArgumentListsWitness ==
    /\ visited = 1
    /\ Len(prog) = 2
    /\ tree[1].arrays = {2}
    /\ Len(Bindings(tree[1].id)) = 3
    /\ Bindings(tree[1].id)[3].arg = <<"iter", 0>>
    /\ Len(Signature(tree[1].id)) = 3

\* C2: a read-only scalar never gets a "cl_mem dev_" declaration, a
\* clCreateBuffer or a clReleaseMemObject, and every clSetKernelArg for it
\* passes the address and the size of the host variable.
ReadOnlyScalarsStayOnHost ==
    \A i \in 1..Len(prog) :
        prog[i].read_only_scalar =>
            /\ OnArray("declare", i) = <<>>
            /\ OnArray("alloc", i) = <<>>
            /\ OnArray("release_mem", i) = <<>>
            /\ \A n \in 1..Len(host) :
                (host[n].op = "set_arg" /\ host[n].arg = <<"array", i>>) =>
                    /\ host[n].addr = "&name"
                    /\ host[n].size_of = "name"

\* The generation is finished for a program with a read-only scalar that a
\* kernel accesses and with another array that has a device buffer.
ReadOnlyScalarsWitness ==
    /\ pc = "done"
    /\ \E i \in 1..Len(prog) :
        /\ prog[i].read_only_scalar
        /\ \E n \in 1..Len(host) :
            host[n].op = "set_arg" /\ host[n].arg = <<"array", i>>
    /\ \E i \in 1..Len(prog) : OnArray("release_mem", i) # <<>>

\* C3: no clEnqueueReadBuffer is printed for an array outside copy_out; an
\* array outside copy_in is allocated without CL_MEM_COPY_HOST_PTR and with
\* NULL, an array in copy_in with CL_MEM_COPY_HOST_PTR and the host pointer,
\* which is the address of the variable for a scalar.
CopyPolicy ==
    /\ \A i \in 1..Len(prog) :
        ~prog[i].copy_out => OnArray("read_buffer", i) = <<>>
    /\ \A n \in 1..Len(host) :
        host[n].op = "alloc" =>
            LET a == prog[host[n].array]
            IN  IF a.copy_in
                THEN /\ host[n].copy_host_ptr
                     /\ host[n].src = IF a.scalar THEN "&name" ELSE "name"
                ELSE /\ ~host[n].copy_host_ptr
                     /\ host[n].src = "NULL"

\* The generation is finished for a program with an array that is
\* allocated without a copy and not copied back, and a scalar that is
\* allocated with a copy.
CopyPolicyWitness ==
    /\ pc = "done"
    /\ \E i \in 1..Len(prog) :
        /\ ~prog[i].copy_in /\ ~prog[i].copy_out
        /\ OnArray("alloc", i) # <<>>
    /\ \E i \in 1..Len(prog) :
        /\ prog[i].copy_in /\ prog[i].scalar
        /\ OnArray("alloc", i) # <<>>

\* C4: in the host file every clCreateBuffer comes before every
\* clEnqueueNDRangeKernel, every clEnqueueReadBuffer after every
\* clEnqueueNDRangeKernel, and every clReleaseMemObject after every
\* clEnqueueNDRangeKernel and every clEnqueueReadBuffer.
AllocateUseCopyRelease ==
    /\ \A a \in Positions(host, "alloc") :
        \A l \in Positions(host, "enqueue") : a < l
    /\ \A l \in Positions(host, "enqueue") :
        /\ \A c \in Positions(host, "read_buffer") : l < c
        /\ \A f \in Positions(host, "release_mem") : l < f
    /\ \A c \in Positions(host, "read_buffer") :
        \A f \in Positions(host, "release_mem") : c < f

\* The generation is finished with an allocation, two launches, a copy
\* back and a release in the host file.
AllocateUseCopyReleaseWitness ==
    /\ pc = "done"
    /\ Positions(host, "alloc") # {}
    /\ Cardinality(Positions(host, "enqueue")) = 2
    /\ Positions(host, "read_buffer") # {}
    /\ Positions(host, "release_mem") # {}

\* C5: every clEnqueueNDRangeKernel is followed by a clFinish of the same
\* block before the block of another kernel node is opened, so that between
\* two clEnqueueNDRangeKernel statements there is always a clFinish.
LaunchesAreSynchronous ==
    /\ \A e \in Positions(host, "enqueue") :
        \E f \in Positions(host, "finish") :
            /\ e < f
            /\ host[f].kernel = host[e].kernel
            /\ \A m \in e..f : host[m].op \notin {"block_open", "block_close"}
    /\ \A e1, e2 \in Positions(host, "enqueue") :
        e1 < e2 => \E f \in Positions(host, "finish") : e1 < f /\ f < e2

\* Two launches have been printed.
LaunchesAreSynchronousWitness ==
    /\ visited = 2
    /\ Cardinality(Positions(host, "enqueue")) = 2

\* C6 (as claimed): once opencl_open_files has run with one of the three
\* files not openable, generate_opencl is on its way to return -1, nothing
\* has been written to any file, and at the end no opened file is left
\* open.
OpenFailureAborts ==
    (pc # "start" /\ fs # Files) =>
        /\ r = -1
        /\ pc \in {"close", "done"}
        /\ host = <<>>
        /\ kernel_c = <<>>
        /\ kernel_h = 0
        /\ pc = "done" => \A f \in Files : info[f] # "open"

\* The kernel of a statement of the host file.
KernelOf(s) == tree[s.kernel + 1]

\* The positions of the global_work_size declarations in the host file.
WorkSizes == Positions(host, "global_work_size")

WorkSizeInitializerFits ==
    \A n \in WorkSizes :
        /\ host[n].len = max(KernelOf(host[n]).n_block, 1)
        /\ Len(host[n].init) = host[n].len

\* The input of C10: array 1 (A) is only written, array 2 (B) is a
\* read-only scalar, and the one kernel accesses both and has one parameter
\* (N) and no host iterator.
EndToEndInput ==
    /\ fs = Files
    /\ Len(prog) = 2
    /\ ~prog[1].read_only_scalar /\ ~prog[1].copy_in /\ prog[1].copy_out
    /\ prog[2].read_only_scalar /\ ~prog[2].copy_out
    /\ Len(tree) = 1
    /\ tree[1].arrays = {1, 2}
    /\ tree[1].nparam = 1
    /\ tree[1].niter = 0

\* The argument of each clSetKernelArg statement of the host file, in order.
BoundArguments ==
    LET b == SelectSeq(host, LAMBDA s : s.op = "set_arg")
    IN  [n \in 1..Len(b) |-> b[n].arg]

\* What C10 says of the host file apart from the clSetKernelArg statements:
\* one allocation for A without copy, none for B, then the bindings, one
\* launch, one copy back of A inside its guard, one release of A, in this
\* order, and B among the arguments of the declaration.
EndToEndRest ==
    /\ Len(OnArray("alloc", 1)) = 1
    /\ ~OnArray("alloc", 1)[1].copy_host_ptr
    /\ OnArray("alloc", 1)[1].src = "NULL"
    /\ OnArray("alloc", 2) = <<>>
    /\ [n \in 1..Len(Signature(0)) |-> Signature(0)[n].arg]
            = << <<"array", 1>>, <<"array", 2>>, <<"param", 0>> >>
    /\ Cardinality(Positions(host, "enqueue")) = 1
    /\ Len(OnArray("read_buffer", 1)) = 1
    /\ OnArray("read_buffer", 2) = <<>>
    /\ \A c \in Positions(host, "read_buffer") :
        ~prog[1].guard_trivial =>
            host[c - 1].op = "if_guard" /\ host[c + 1].op = "end_guard"
    /\ Len(OnArray("release_mem", 1)) = 1
    /\ OnArray("release_mem", 2) = <<>>
    /\ \A a \in Positions(host, "alloc"), b \in Positions(host, "set_arg"),
          l \in Positions(host, "enqueue"), c \in Positions(host, "read_buffer"),
          f \in Positions(host, "release_mem") :
            a < b /\ b < l /\ l < c /\ c < f

\* C10 (as claimed): on that input the bindings are those of A and N, B
\* being left out of the bindings.
EndToEndBindsAN ==
    (pc = "done" /\ EndToEndInput) =>
        /\ EndToEndRest
        /\ BoundArguments = << <<"array", 1>>, <<"param", 0>> >>

\* C10 (amended): on that input there are three bindings, of A, B and N
\* with the indices 0, 1 and 2; A is bound by the address of its device
\* buffer, B and N by the address and the size of the host variable.
EndToEndBindsABN ==
    (pc = "done" /\ EndToEndInput) =>
        /\ EndToEndRest
        /\ BoundArguments
                = << <<"array", 1>>, <<"array", 2>>, <<"param", 0>> >>
        /\ LET b == Bindings(0)
           IN  /\ \A n \in 1..3 : b[n].index = n - 1
               /\ b[1].addr = "&dev_name" /\ b[1].size_of = "cl_mem"
               /\ b[2].addr = "&name" /\ b[2].size_of = "name"
               /\ b[3].addr = "&name" /\ b[3].size_of = "name"

\* The generation is finished on the input of C10.
EndToEndWitness ==
    /\ pc = "done"
    /\ EndToEndInput
    /\ Len(host) > 0


CanonicalOrder(args, kernel) ==
    LET na == Cardinality(kernel.arrays)
    IN  /\ Len(args) = na + kernel.nparam + kernel.niter
        /\ \A n \in 1..na :
            /\ args[n][1] = "array"
            /\ args[n][2] \in kernel.arrays
            /\ \A m \in 1..(n - 1) : args[m][2] < args[n][2]
        /\ \A n \in 1..kernel.nparam :
            args[na + n] = <<"param", n - 1>>
        /\ \A n \in 1..kernel.niter :
            args[na + kernel.nparam + n] = <<"iter", n - 1>>

\* C12: the bindings and the declaration of every kernel printed list the
\* accessed arrays in program order (read-only scalars included), then the
\* parameters, then the host iterators; no array outside kernel->arrays
\* appears and the three groups are not interleaved.
ArgumentsInCanonicalOrder ==
    \A k \in 1..visited :
        LET bind == Bindings(tree[k].id)
            sig == Signature(tree[k].id)
        IN  /\ CanonicalOrder([n \in 1..Len(bind) |-> bind[n].arg], tree[k])
            /\ CanonicalOrder([n \in 1..Len(sig) |-> sig[n].arg], tree[k])

\* A kernel that accesses a read-only scalar and another array and has a
\* parameter and a host iterator has been printed, for a program whose
\* first array the kernel does not access.
CanonicalOrderWitness ==
    /\ visited = 1
    /\ Len(Bindings(tree[1].id)) = 3
    /\ tree[1].nparam = 1
    /\ tree[1].niter = 1
    /\ tree[1].arrays = {2}
    /\ prog[2].read_only_scalar


\* The kernel declarations printed to the kernel file.
Declarations == SelectSeq(kernel_c, LAMBDA s : s.op = "kernel")

\* C13 (as claimed): in every kernel declaration the parameters and the
\* host iterators are declared with the AST iterator type, whatever it is,
\* and the arrays are printed with "__global".
ScalarsHaveIteratorType ==
    \A d \in 1..Len(Declarations) :
        \A n \in 1..Len(Declarations[d].args) :
            LET a == Declarations[d].args[n]
            IN  IF a.arg[1] = "array"
                THEN a.how = "__global"
                ELSE a.how = ast_iterator_type

\* C13 (amended): in every kernel declaration the host iterators are
\* declared with the AST iterator type, whatever it is, the parameters are
\* declared "int", and the arrays are printed with "__global".
IteratorsHaveIteratorType ==
    \A d \in 1..Len(Declarations) :
        \A n \in 1..Len(Declarations[d].args) :
            LET a == Declarations[d].args[n]
            IN  CASE a.arg[1] = "array" -> a.how = "__global"
                  [] a.arg[1] = "param" -> a.how = "int"
                  [] a.arg[1] = "iter" -> a.how = ast_iterator_type

\* A kernel with an array, a parameter and a host iterator has been
\* declared while the AST iterator type is not "int".
IteratorTypeWitness ==
    /\ ast_iterator_type = "long"
    /\ \E d \in 1..Len(Declarations) :
        LET args == Declarations[d].args
        IN  /\ Len(args) = 3
            /\ args[1].arg[1] = "array"
            /\ args[2].arg[1] = "param"
            /\ args[3].arg[1] = "iter"


\* Whether the argument of a binding is an array flagged as a read-only
\* scalar.
IsReadOnlyScalarArray(arg) ==
    arg[1] = "array" /\ prog[arg[2]].read_only_scalar

PassesHostAddress(s) == s.addr = "&name" /\ s.size_of = "name"

PassesDeviceHandle(s) == s.addr = "&dev_name" /\ s.size_of = "cl_mem"

\* C14 (as claimed): every binding passes the address of the host scalar
\* if its argument is a read-only scalar array, and the address of the
\* device buffer handle, with the size of a handle, for every other
\* argument.
OnlyScalarArraysByHostAddress ==
    \A n \in Positions(host, "set_arg") :
        IF IsReadOnlyScalarArray(host[n].arg)
        THEN PassesHostAddress(host[n])
        ELSE PassesDeviceHandle(host[n])

\* C14 (amended): there is one binding per argument of the kernel, at the
\* position of the argument; it passes the address of the device buffer
\* handle, with the size of a handle, if its argument is an array that is
\* not a read-only scalar, and the address of the host variable if its
\* argument is a read-only scalar array, a parameter or a host iterator.
OnlyBuffersByDeviceHandle ==
    /\ \A n \in Positions(host, "set_arg") :
        IF host[n].arg[1] = "array" /\ ~prog[host[n].arg[2]].read_only_scalar
        THEN PassesDeviceHandle(host[n])
        ELSE PassesHostAddress(host[n])
    /\ \A k \in 1..visited :
        LET bind == Bindings(tree[k].id)
        IN  /\ Len(bind) = Cardinality(tree[k].arrays) + tree[k].nparam
                                + tree[k].niter
            /\ \A n \in 1..Len(bind) : bind[n].index = n - 1

\* The bindings of a kernel with a read-only scalar, another array, a
\* parameter and a host iterator have been printed.
BindingKindsWitness ==
    /\ visited = 1
    /\ Len(Bindings(tree[1].id)) = 4
    /\ tree[1].nparam = 1
    /\ tree[1].niter = 1
    /\ \E i \in tree[1].arrays : prog[i].read_only_scalar
    /\ \E i \in tree[1].arrays : ~prog[i].read_only_scalar


\* The number an entry of a size list stands for, given the block sizes b
\* and the grid bounds g of the kernel (dimension i is element i + 1).
Value(s, b, g) ==
    CASE s.form = "grid*block" -> g[s.i + 1] * b[s.i + 1]
      [] s.form = "block" -> b[s.i + 1]
      [] s.form = "grid" -> g[s.i + 1]
      [] s.form = "lit" -> s.i

ReadsBlock(s) == s.form \in {"block", "grid*block"}

ReadsGrid(s) == s.form \in {"grid", "grid*block"}

\* C15: for a kernel with B = n_block > 0 and G = grid dimension > 0, the
\* initializer of global_work_size has max(B, G) entries; entry i is
\* (g[i]) * b[i] if i < min(B, G), b[i] if i >= G and g[i] if i >= B; no
\* entry reads b[i] with i >= B or g[i] with i >= G; and with b = [8, 4] and
\* g = [10, 5] the entries are [10 * 8, 5 * 4].
TotalWorkItemsList ==
    \A n \in WorkSizes :
        LET B == KernelOf(host[n]).n_block
            G == KernelOf(host[n]).grid_dim
            list == host[n].init
        IN  (B > 0 /\ G > 0) =>
                /\ Len(list) = max(B, G)
                /\ \A j \in 1..Len(list) :
                    /\ list[j].i = j - 1
                    /\ j - 1 < min(B, G) => list[j].form = "grid*block"
                    /\ (j - 1 >= G) => list[j].form = "block"
                    /\ (j - 1 >= B) => list[j].form = "grid"
                    /\ ReadsBlock(list[j]) => list[j].i < B
                    /\ ReadsGrid(list[j]) => list[j].i < G
                /\ (B = 2 /\ G = 2) =>
                    [j \in 1..Len(list) |->
                        Value(list[j], <<8, 4>>, <<10, 5>>)] = <<80, 20>>

\* The launch blocks of a kernel with more block than grid dimensions and
\* of one with more grid than block dimensions have been printed.
TotalWorkItemsWitness ==
    /\ \E n \in WorkSizes :
        KernelOf(host[n]).grid_dim > 0
            /\ KernelOf(host[n]).n_block > KernelOf(host[n]).grid_dim
    /\ \E n \in WorkSizes :
        KernelOf(host[n]).n_block > 0
            /\ KernelOf(host[n]).grid_dim > KernelOf(host[n]).n_block


\* The statement of the given kind in the launch block of the kernel.
InBlock(op, id) ==
    host[CHOOSE n \in Positions(host, op) : host[n].kernel = id]

\* C16: for every kernel, block_size is declared with length max(B, 1) and
\* initialized with b[0], ..., b[B - 1] if B > 0 and with the literal 1 if
\* B = 0; the work dimension of the launch is max(B, 1); and the declared
\* lengths of global_work_size and block_size and the work dimension of
\* the launch are the same number.
BlockSizeAndWorkDimension ==
    \A k \in 1..visited :
        LET B == tree[k].n_block
            sizes == InBlock("block_size", tree[k].id)
            total == InBlock("global_work_size", tree[k].id)
            launch == InBlock("enqueue", tree[k].id)
        IN  /\ \E n \in Positions(host, "block_size") :
                host[n].kernel = tree[k].id
            /\ \E n \in Positions(host, "enqueue") :
                host[n].kernel = tree[k].id
            /\ sizes.len = max(B, 1)
            /\ sizes.init = IF B > 0 THEN [j \in 1..B |-> Size("block", j - 1)]
                            ELSE <<Size("lit", 1)>>
            /\ launch.dim = max(B, 1)
            /\ total.len = sizes.len
            /\ sizes.len = launch.dim

\* The launch blocks of a kernel without block dimensions and of a kernel
\* with two block dimensions have been printed.
BlockSizeWitness ==
    /\ \E n \in Positions(host, "block_size") : KernelOf(host[n]).n_block = 0
    /\ \E n \in Positions(host, "block_size") : KernelOf(host[n]).n_block = 2


\* The number of kernel nodes whose launch block has been printed: the
\* nodes done with and the node whose kernel is about to be printed.
BlocksPrinted == visited + (IF pc = "print_kernel" THEN 1 ELSE 0)

\* The kinds of the statements of the launch block of a kernel, in order.
BlockOrder(kernel) ==
    <<"block_open", "global_work_size", "block_size", "create_kernel",
      "check_err">>
    \o [j \in 1..(Cardinality(kernel.arrays) + kernel.nparam + kernel.niter)
            |-> "set_arg"]
    \o <<"enqueue", "release_kernel", "finish", "block_close">>

\* The statements of the host file from position n on are the launch block
\* of the kernel: the kinds in order, each naming this kernel.
IsBlockAt(n, kernel) ==
    LET order == BlockOrder(kernel)
    IN  /\ n + Len(order) - 1 <= Len(host)
        /\ \A j \in 1..Len(order) :
            /\ host[n + j - 1].op = order[j]
            /\ order[j] # "check_err" => host[n + j - 1].kernel = kernel.id

\* C17: at each kernel node the host file gets, in this order, the size
\* arrays, the creation of the kernel object and its check, the argument
\* bindings, the launch, the release of the kernel object, the wait and the
\* end of the block; the kernel function is printed to the kernel file
\* only after that block is complete, once per node visited; and after the
\* traversal there are as many kernel functions as kernel nodes.
LaunchBlockThenKernel ==
    /\ Cardinality(Positions(host, "block_open")) = BlocksPrinted
    /\ \A k \in 1..BlocksPrinted :
        \E n \in Positions(host, "block_open") : IsBlockAt(n, tree[k])
    /\ [n \in 1..Len(Declarations) |-> Declarations[n].id]
            = [k \in 1..visited |-> tree[k].id]
    /\ (pc = "done" /\ r = 0) => Len(Declarations) = Len(tree)

\* The launch block of the second of two kernels is complete and its
\* kernel function has not been printed yet.
LaunchBlockWitness ==
    /\ pc = "print_kernel"
    /\ visited = 1
    /\ Len(tree) = 2
    /\ Len(Declarations) = 1
    /\ \E n \in Positions(host, "block_close") : host[n].kernel = tree[2].id


\* The arrays named by the statements of the given kind, in the order of
\* the host file.
ArraysOf(op) ==
    LET s == SelectSeq(host, LAMBDA x : x.op = op)
    IN  [n \in 1..Len(s) |-> s[n].array]

\* The arrays of the program that are not read-only scalars, in order.
DeviceArrays ==
    SelectSeq([i \in 1..Len(prog) |-> i],
              LAMBDA i : ~prog[i].read_only_scalar)

\* No read-only scalar is to be copied back from the device.
NoReadOnlyScalarCopiedOut ==
    \A i \in 1..Len(prog) : prog[i].read_only_scalar => ~prog[i].copy_out

\* The positions of the statements that name a dev_ handle of an array in
\* an argument binding or in a copy back.
HandleUses ==
    {n \in Positions(host, "set_arg") : host[n].addr = "&dev_name"}
        \cup Positions(host, "read_buffer")

\* The array whose dev_ handle the statement at position n names.
HandleUsed(n) ==
    IF host[n].op = "set_arg" THEN host[n].arg[2] ELSE host[n].array

\* C18: when the generation has succeeded, the arrays with a declared
\* dev_ handle, the arrays with an allocated buffer and the arrays with a
\* released buffer are each the arrays that are not read-only scalars, once
\* each; and, if no read-only scalar is copied out, every dev_ handle named
\* by an argument binding or a copy back is of such an array and is
\* allocated before the statement and released after it.
BufferHandlesConsistent ==
    /\ (pc = "done" /\ r = 0) =>
        /\ ArraysOf("declare") = DeviceArrays
        /\ ArraysOf("alloc") = DeviceArrays
        /\ ArraysOf("release_mem") = DeviceArrays
    /\ NoReadOnlyScalarCopiedOut =>
        \A n \in HandleUses :
            /\ host[n].op = "set_arg" => host[n].arg[1] = "array"
            /\ ~prog[HandleUsed(n)].read_only_scalar
            /\ \E d \in Positions(host, "declare") :
                d < n /\ host[d].array = HandleUsed(n)
            /\ \E a \in Positions(host, "alloc") :
                a < n /\ host[a].array = HandleUsed(n)
            /\ (pc = "done" /\ r = 0) =>
                \E f \in Positions(host, "release_mem") :
                    n < f /\ host[f].array = HandleUsed(n)

\* The generation has succeeded for a program with a read-only scalar that
\* is not copied out and another array that is bound to a kernel through
\* its dev_ handle and copied back.
BufferHandlesWitness ==
    /\ pc = "done"
    /\ r = 0
    /\ NoReadOnlyScalarCopiedOut
    /\ \E i \in 1..Len(prog) : prog[i].read_only_scalar
    /\ \E n \in Positions(host, "set_arg") : host[n].addr = "&dev_name"
    /\ Positions(host, "read_buffer") # {}

====
